---- MODULE Spec2Model ----
(***************************************************************************)
(* DPLL satisfiability search of main.py: the Literal value type, the      *)
(* knowledge-base helpers, the recursive procedure _dpll (its call stack   *)
(* made explicit) and the driver dpll_satisfiable.                         *)
(*                                                                         *)
(* A variable name is a number 1..NumVars (1 < 2 < 3 stands for the        *)
(* alphabetical order "A" < "B" < "C").  A clause entry is a record        *)
(* [name, sign]; the Python booleans True / False that substitute() puts   *)
(* into a clause are the entries with name 0.                              *)
(***************************************************************************)
EXTENDS Integers, Sequences, FiniteSets

\* ---- bounds of the model
NumVars == 2
MaxClauses == 2
MaxClauseLen == 2

Names == 1..NumVars
\* heuristic levels tried: the four defined tiers, one below and one above
Levels == {-1, 0, 1, 2, 3, 4}

\* the levels a caller starts from: above the tiers, to step down through them
\* to tier 0 (see Recall), or below them
StartLevels == {-1, 4}

\* ---- Literal (main.py 5-13)
Literal(name, sign) == [name |-> name, sign |-> sign]

Literals == {Literal(n, s) : n \in Names, s \in BOOLEAN}

\* -lit: same name, inverted sign
Neg(lit) == Literal(lit.name, ~lit.sign)

\* dataclass(order=True): tuple order on (name, sign), False < True
LitLess(a, b) == \/ a.name < b.name
                 \/ a.name = b.name /\ a.sign = FALSE /\ b.sign = TRUE

\* a Python bool inside a clause
BoolConst(b) == [name |-> 0, sign |-> b]

\* truth value of a clause entry in "if lit": False is falsy, a Literal
\* (no __bool__, no __len__) and True are truthy
Truthy(x) == x # BoolConst(FALSE)

\* ---- helpers (main.py 17-46)
get_lits(kb) == UNION {kb[i] : i \in DOMAIN kb}

\* substitute with the assigned value ignored: a literal becomes its own sign
substitute_ignoring_value(name, value, kb) == [i \in DOMAIN kb |-> {IF x.name # name THEN x ELSE BoolConst(x.sign) : x \in kb[i]}]

\* substitute that only replaces the positive literal of the name
substitute_positive_only(name, value, kb) == [i \in DOMAIN kb |-> {IF x # Literal(name, TRUE) THEN x ELSE BoolConst(x.sign = value) : x \in kb[i]}]

substitute(name, value, kb) == [i \in DOMAIN kb |-> {IF x.name # name THEN x ELSE BoolConst(x.sign = value) : x \in kb[i]}]

\* pure without the test of the negation
pure_without_negation(lit, kb) == lit \in get_lits(kb)

pure(lit, kb) == lit \in get_lits(kb) /\ Neg(lit) \notin get_lits(kb)

unit(lit, kb) == \E i \in DOMAIN kb : kb[i] = {lit}

degree(lit, kb) == Cardinality({i \in DOMAIN kb : lit \in kb[i] \/ Neg(lit) \in kb[i]})

\* sorted(S) of a set of literals: ascending in LitLess; the i-th entry is the
\* literal with i-1 smaller ones
sorted(S) == [i \in 1..Cardinality(S) |-> CHOOSE x \in S : Cardinality({y \in S : LitLess(y, x)}) = i - 1]

\* the place (from 0) of seq[j] once seq is sorted by descending degree,
\* entries of equal degree keeping their order
DegreeRank(seq, kb, j) ==
    Cardinality({k \in DOMAIN seq : \/ degree(seq[k], kb) > degree(seq[j], kb)
                                    \/ degree(seq[k], kb) = degree(seq[j], kb) /\ k < j})

\* sorted(seq, key=lambda l: degree(l, kb), reverse=True): descending degree,
\* stable
sorted_by_degree(seq, kb) == [i \in DOMAIN seq |-> seq[CHOOSE j \in DOMAIN seq : DegreeRank(seq, kb, j) = i - 1]]

\* ---- _dpll, line 57: drop the clauses holding True, strip the falsy entries
KeepClause(c) == BoolConst(TRUE) \notin c

\* housekeeping that drops every clause holding a boolean, True or False
Housekeeping_dropping_false(kb) ==
    LET kept == SelectSeq(kb, LAMBDA c : BoolConst(TRUE) \notin c /\ BoolConst(FALSE) \notin c)
    IN  [i \in DOMAIN kept |-> {x \in kept[i] : Truthy(x)}]

Housekeeping(kb) == LET kept == SelectSeq(kb, KeepClause)
                    IN  [i \in DOMAIN kept |-> {x \in kept[i] : Truthy(x)}]

\* line 60: "not kb"
AllResolved(kb) == kb = <<>>

\* line 63: any(not clause for clause in kb)
HasEmptyClause(kb) == \E i \in DOMAIN kb : kb[i] = {}

\* lines 67-75: the freebie candidates, as the list the code builds
ReRanks(h) == h = 3

candidates(kb, h) ==
    LET alpha == sorted({x \in get_lits(kb) : pure(x, kb) \/ unit(x, kb)})
    IN  IF ReRanks(h) THEN sorted_by_degree(alpha, kb) ELSE alpha

\* line 67 and 77: the freebie step is taken
UsesFreebie(kb, h) == h >= 2 /\ candidates(kb, h) # <<>>

\* line 95: the branching literal of the degree heuristic
DegreeChoice(kb) == sorted_by_degree(sorted(get_lits(kb)), kb)[1]

\* lines 91-101: the literals the branch step may pick
BranchChoices(kb, h) == IF h >= 1 THEN {DegreeChoice(kb)} ELSE get_lits(kb)

\* {**model, name: value} on a dict kept as a set of [name, val] items
Extend(model, name, value) == {p \in model : p.name # name} \cup {[name |-> name, val |-> value]}

\* line 61: stuff['model'].update(model)
Update(shared, model) == {p \in shared : \A q \in model : q.name # p.name} \cup model

\* line 131: {Literal(k): v for k, v in stf['model'].items()}
WrapModel(model) == {[key |-> Literal(p.name, TRUE), val |-> p.val] : p \in model}

\* ---- the interpreter's recursion limit.  Every Python call nests one level
\* deeper and the interpreter raises RecursionError past
\* sys.getrecursionlimit() levels (1000 unless changed).  An activation of
\* _dpll takes one level; the helper calls of a line take the levels given
\* below under the activation, measured on CPython 3.11: a function, a
\* comprehension, a generator expression, a lambda, a method of Literal and
\* a counted built-in (hash, sum, a comparison, the call of the class) take
\* one level each.

\* line 57: <listcomp>; <setcomp> for a clause that is kept; Literal.__hash__
\* and hash() for a Literal put into the new set
HoldsLiteral(c) == \E x \in c : x.name # 0

Units57(kb) == IF \A i \in DOMAIN kb : ~KeepClause(kb[i]) THEN 1
               ELSE IF \A i \in DOMAIN kb : KeepClause(kb[i]) => ~HoldsLiteral(kb[i]) THEN 2
               ELSE 4

\* some literal of lits is held by two clauses: set().union and "in" call
\* Literal.__eq__ when the two clauses hold equal Literal objects that are not
\* one object, and __eq__ compares the two names when they are equal strings
\* that are not one object; the caller of dpll_satisfiable decides both
Twice(kb, lits) == \E x \in lits : Cardinality({i \in DOMAIN kb : x \in kb[i]}) >= 2

\* line 46, "lit in clause or -lit in clause": -lit is built (__neg__,
\* Literal(), __init__) when some clause does not hold lit
Negates(kb, lits) == \E x \in lits : \E i \in DOMAIN kb : x \notin kb[i]

\* line 70: <listcomp> > pure > __neg__ > Literal() > __init__ > __setattr__,
\* or <listcomp> > pure > get_lits > union > __eq__ and its comparisons (of
\* the two tuples, of the Literals, of the names)
Units70(kb) == IF Twice(kb, get_lits(kb)) THEN {6, 7, 8} ELSE {6}

\* lines 75 and 95, sorted(..., key=lambda l: degree(l, kb)) over the literals
\* lits: <lambda> > degree > sum > <genexpr> and then __hash__ > hash, or
\* __eq__ and its comparisons, or __neg__ > Literal() > __init__ >
\* __setattr__; until the interpreter has specialised the call sites of this
\* chain it counts up to two levels more
UnitsDegree(kb, lits) ==
    LET warm == IF Negates(kb, lits) THEN {8} ELSE IF Twice(kb, lits) THEN {6, 7, 8} ELSE {6}
    IN  {u + c : u \in warm, c \in 0..2}

\* line 101: get_lits and one_of one level each, or get_lits > union >
\* __eq__ and its comparisons
Units101(kb) == IF Twice(kb, get_lits(kb)) THEN {1, 5, 6} ELSE {1}

\* lines 85, 106, 107: substitute > <listcomp> > <setcomp> > comparison, or,
\* for a Literal of another name put into the new set, > __hash__ > hash;
\* the call of _dpll itself takes one level
Units106(kb, name) == IF \E x \in get_lits(kb) : x.name # name THEN 5 ELSE 4

\* the most levels a line of an activation takes at heuristic level h
MaxUnits(h) == IF h >= 1 THEN 10 ELSE 6

\* the levels the interpreter has left under dpll_satisfiable when it calls
\* _dpll at line 130, the activation of that call included: the recursion
\* limit less the depth of dpll_satisfiable, 0 when dpll_satisfiable itself
\* runs at the limit.  A search makes at most one decision per variable, so
\* the largest value is room for every search at level h.
Rooms(h) == 0..(NumVars + MaxUnits(h))

\* ---- inputs (main.py 111): kb is a List[Set[Literal]] of at most MaxClauses
\* clauses, a clause a set of at most MaxClauseLen literals
Clauses == {c \in SUBSET Literals : Cardinality(c) <= MaxClauseLen}

\* a number that identifies a clause, to list the clauses of a KB in one order
RECURSIVE ClauseCode(_)
ClauseCode(c) == IF c = {} THEN 0
                 ELSE LET x == CHOOSE y \in c : TRUE
                      IN  2 ^ (2 * (x.name - 1) + (IF x.sign THEN 1 ELSE 0)) + ClauseCode(c \ {x})

\* _dpll reads kb only through unions, counts and membership tests, never
\* through the position of a clause, so the input lists are enumerated up to
\* the order of their clauses (repeated clauses included)
Ordered(kb) == \A i \in 1..(Len(kb) - 1) : ClauseCode(kb[i]) <= ClauseCode(kb[i + 1])

KBs == {kb \in UNION {[1..n -> Clauses] : n \in 0..MaxClauses} : Ordered(kb)}

\* ---- state
VARIABLES kb0, room, phase, stuff, stack, ret, result, prev, err

vars == <<kb0, room, phase, stuff, stack, ret, result, prev, err>>

\* placeholder for "sub" in a frame that has not chosen a literal yet
NoLit == [name |-> 0, sign |-> FALSE]

\* one activation of _dpll(kb, model, stuff); pc is where it stands: "start"
\* (called, body not run), "free" (inside the call of line 84), "true" (inside
\* the first call of line 106), "false" (inside the second call, line 107)
Frame(kb, model, pc, sub) == [kb |-> kb, model |-> model, pc |-> pc, sub |-> sub]

\* lines 126 and 130: stf and the first call _dpll(kb, {}, stf)
FreshStuff(h) == [model |-> {}, trace |-> <<>>, h_lvl |-> h]

NoResult == [sat |-> FALSE, model |-> {}, trace |-> <<>>]

Init == /\ kb0 \in KBs
        /\ \E h \in StartLevels : stuff = FreshStuff(h)
        /\ room \in Rooms(stuff.h_lvl)
        /\ phase = "running"
        /\ stack = <<Frame(kb0, {}, "start", NoLit)>>
        /\ ret = "None"
        /\ result = NoResult
        /\ prev = <<>>
        /\ err = <<>>

Top == stack[Len(stack)]

Pop == SubSeq(stack, 1, Len(stack) - 1)

\* the top activation has been called and is about to run the body of _dpll,
\* if the interpreter has a level for it
AtStart == phase = "running" /\ stack # <<>> /\ Top.pc = "start" /\ ret = "None"

\* the call the top activation was waiting for has returned
Returned(pc) == phase = "running" /\ stack # <<>> /\ Top.pc = pc /\ ret # "None"

\* line 57: the KB the top activation works on after housekeeping
TopKb == Housekeeping(Top.kb)

\* the levels the interpreter has left under the top activation; below 0 when
\* it has none for the activation itself
Avail == room - Len(stack)

\* a line whose helper calls take one of the numbers of levels in S can run
CanPass(S) == \E u \in S : u <= Avail

\* a line whose helper calls take one of the numbers of levels in S can run
\* out of levels
CanRaise(S) == \E u \in S : u > Avail

\* line 57 has the levels it takes
Passes57 == Avail >= Units57(Top.kb)

\* the literals sorted by line 75
CandidateSet == {x \in get_lits(TopKb) : pure(x, TopKb) \/ unit(x, TopKb)}

\* lines 70 and 75 have the levels they take
PassesFreebieLines ==
    /\ CanPass(Units70(TopKb))
    /\ (ReRanks(stuff.h_lvl) /\ CandidateSet # {}) => CanPass(UnitsDegree(TopKb, CandidateSet))

\* lines 70 (at level >= 2) and 95 or 101 have the levels they take
PassesBranchLines ==
    /\ stuff.h_lvl >= 2 => PassesFreebieLines
    /\ IF stuff.h_lvl >= 1 THEN CanPass(UnitsDegree(TopKb, get_lits(TopKb)))
                           ELSE CanPass(Units101(TopKb))

\* the activation that replaces the top one while it waits for a call, and the
\* callee; the callee is one activation deeper than the caller
Calling(kb, pc, sub, value) ==
    Pop \o <<Frame(kb, Top.model, pc, sub),
             Frame(substitute(sub.name, value, kb), Extend(Top.model, sub.name, value), "start", NoLit)>>

\* lines 60-62
Succeed == /\ AtStart
           /\ Passes57
           /\ AllResolved(TopKb)
           /\ stuff' = [stuff EXCEPT !.model = Update(stuff.model, Top.model)]
           /\ stack' = Pop
           /\ ret' = "True"
           /\ UNCHANGED <<kb0, room, phase, result, prev, err>>

\* the failure terminal with the model committed before the checks
Fail_committing == /\ AtStart
                   /\ Passes57
                   /\ ~AllResolved(TopKb)
                   /\ HasEmptyClause(TopKb)
                   /\ stuff' = [stuff EXCEPT !.model = Update(stuff.model, Top.model)]
                   /\ stack' = Pop
                   /\ ret' = "False"
                   /\ UNCHANGED <<kb0, room, phase, result, prev, err>>

\* lines 63-64
Fail == /\ AtStart
        /\ Passes57
        /\ ~AllResolved(TopKb)
        /\ HasEmptyClause(TopKb)
        /\ stack' = Pop
        /\ ret' = "False"
        /\ UNCHANGED <<kb0, room, phase, stuff, result, prev, err>>

\* neither terminal check applies
Open(kb) == ~AllResolved(kb) /\ ~HasEmptyClause(kb)

\* the freebie literal's variable always assigned True
FreebieValue_always_true(sub) == TRUE

\* lines 85-86: the value the freebie literal's variable gets, sub.sign
FreebieValue(sub) == sub.sign

\* line 80: candidates[0]
FreebieChoice == candidates(TopKb, stuff.h_lvl)[1]

\* lines 66-88
Freebie == /\ AtStart
           /\ Passes57
           /\ Open(TopKb)
           /\ UsesFreebie(TopKb, stuff.h_lvl)
           /\ PassesFreebieLines
           /\ Avail >= Units106(TopKb, FreebieChoice.name)
           /\ stuff' = [stuff EXCEPT !.trace = Append(@, FreebieChoice)]
           /\ stack' = Calling(TopKb, "free", FreebieChoice, FreebieValue(FreebieChoice))
           /\ UNCHANGED <<kb0, room, phase, ret, result, prev, err>>

\* lines 90-106: pick the branching literal, push it to the trace, try True
Branch == /\ AtStart
          /\ Passes57
          /\ Open(TopKb)
          /\ ~UsesFreebie(TopKb, stuff.h_lvl)
          /\ PassesBranchLines
          /\ \E sub \in BranchChoices(TopKb, stuff.h_lvl) :
                 /\ Avail >= Units106(TopKb, sub.name)
                 /\ stuff' = [stuff EXCEPT !.trace = Append(@, sub)]
                 /\ stack' = Calling(TopKb, "true", sub, TRUE)
          /\ UNCHANGED <<kb0, room, phase, ret, result, prev, err>>

\* the top activation can run out of levels in the helper calls of this line
\* (the lines before it having had theirs).  Lines 63, 83-85 and 107 take no
\* more levels than a line that ran before them.
RaisesAt(line) ==
    CASE line = 130 -> Avail < 0
      [] line = 57 -> Avail >= 0 /\ ~Passes57
      [] line = 70 -> /\ Passes57 /\ Open(TopKb)
                      /\ stuff.h_lvl >= 2
                      /\ CanRaise(Units70(TopKb))
      [] line = 75 -> /\ Passes57 /\ Open(TopKb)
                      /\ ReRanks(stuff.h_lvl) /\ CandidateSet # {}
                      /\ CanPass(Units70(TopKb))
                      /\ CanRaise(UnitsDegree(TopKb, CandidateSet))
      [] line = 95 -> /\ Passes57 /\ Open(TopKb)
                      /\ stuff.h_lvl >= 1 /\ ~UsesFreebie(TopKb, stuff.h_lvl)
                      /\ stuff.h_lvl >= 2 => PassesFreebieLines
                      /\ CanRaise(UnitsDegree(TopKb, get_lits(TopKb)))
      [] line = 101 -> /\ Passes57 /\ Open(TopKb)
                       /\ stuff.h_lvl < 1
                       /\ CanRaise(Units101(TopKb))
      [] OTHER -> FALSE

\* the interpreter raises RecursionError ("maximum recursion depth exceeded"):
\* at the call of line 130, before any activation runs; in the top
\* activation, in the helper calls of lines 57, 70, 75, 95 or 101; or, line
\* 104 having appended the chosen literal to the trace, in those of
\* substitute at line 106.  Nothing catches it: every activation is unwound
\* and dpll_satisfiable ends without a return value; err keeps the line and
\* the number of activations the traceback shows.
RaiseRecursionError ==
    /\ AtStart
    /\ \/ /\ \E line \in {130, 57, 70, 75, 95, 101} :
                 /\ RaisesAt(line)
                 /\ err' = <<[line |-> line, depth |-> IF line = 130 THEN 0 ELSE Len(stack)]>>
          /\ stuff' = stuff
       \/ /\ Passes57 /\ Open(TopKb)
          /\ ~UsesFreebie(TopKb, stuff.h_lvl)
          /\ PassesBranchLines
          /\ \E sub \in BranchChoices(TopKb, stuff.h_lvl) :
                 /\ Avail < Units106(TopKb, sub.name)
                 /\ stuff' = [stuff EXCEPT !.trace = Append(@, sub)]
          /\ err' = <<[line |-> 106, depth |-> Len(stack)]>>
    /\ stack' = <<>>
    /\ phase' = "raised"
    /\ UNCHANGED <<kb0, room, ret, result, prev>>

\* line 84: return what the single recursive call returned
ReturnFreebie == /\ Returned("free")
                 /\ stack' = Pop
                 /\ UNCHANGED <<kb0, room, phase, stuff, ret, result, prev, err>>

\* "a or b" that evaluates b whatever a is
ExploresFalse_always(r) == TRUE

\* line 106-107, "a or b": b is evaluated when a is falsy
ExploresFalse(r) == r = "False"

\* line 106: the True branch succeeded, "or" short-circuits
ShortCircuit == /\ Returned("true")
                /\ ~ExploresFalse(ret)
                /\ stack' = Pop
                /\ UNCHANGED <<kb0, room, phase, stuff, ret, result, prev, err>>

\* line 107: the True branch failed, try False; substitute takes the levels it
\* took at line 106
TryFalse == /\ Returned("true")
            /\ ExploresFalse(ret)
            /\ stack' = Calling(Top.kb, "false", Top.sub, FALSE)
            /\ ret' = "None"
            /\ UNCHANGED <<kb0, room, phase, stuff, result, prev, err>>

\* line 107: the value of "a or b" is b
ReturnSecond == /\ Returned("false")
                /\ stack' = Pop
                /\ UNCHANGED <<kb0, room, phase, stuff, ret, result, prev, err>>

\* lines 129-133: the 3-tuple dpll_satisfiable returns; the comprehension of
\* line 131 takes no more levels than line 57 took in the first activation
Finish == /\ phase = "running"
          /\ stack = <<>>
          /\ ret # "None"
          /\ result' = [sat |-> ret = "True", model |-> WrapModel(stuff.model), trace |-> stuff.trace]
          /\ phase' = "done"
          /\ UNCHANGED <<kb0, room, stuff, stack, ret, prev, err>>

\* the caller solves the same KB again on the next lower tier, down to tier 0,
\* from any depth of its own, and keeps the previous answer to compare
Recall == /\ phase = "done"
          /\ stuff.h_lvl - 1 \in Levels
          /\ stuff.h_lvl >= 1
          /\ prev' = <<[h |-> stuff.h_lvl, sat |-> result.sat, model |-> result.model, trace |-> result.trace]>>
          /\ stuff' = FreshStuff(stuff.h_lvl - 1)
          /\ stack' = <<Frame(kb0, {}, "start", NoLit)>>
          /\ ret' = "None"
          /\ result' = NoResult
          /\ phase' = "running"
          /\ room' \in Rooms(stuff.h_lvl - 1)
          /\ UNCHANGED <<kb0, err>>

\* one step of the search
Step == \/ RaiseRecursionError
        \/ Succeed
        \/ Fail
        \/ Freebie
        \/ Branch
        \/ ReturnFreebie
        \/ ShortCircuit
        \/ TryFalse
        \/ ReturnSecond
        \/ Finish

Next == Step \/ Recall

Spec == Init /\ [][Next]_vars

\* the interpreter runs the call to its end
FairSpec == Spec /\ WF_vars(Step)

\* ======================================================================
\* Properties
\* ======================================================================

\* the activations that have chosen a literal and wait for a recursive call
Decided == {i \in DOMAIN stack : stack[i].pc # "start"}

\* the variable names of a KB
NamesIn(kb) == {x.name : x \in get_lits(kb)} \ {0}

\* the value the variable of a waiting activation has in the call it waits for
ValueOf(f) == IF f.pc = "free" THEN f.sub.sign ELSE f.pc = "true"

\* the assignments of the chain of calls now on the stack
PathModel == {[name |-> stack[i].sub.name, val |-> ValueOf(stack[i])] : i \in Decided}

\* brute force: some assignment of all the variables satisfies every clause
BruteSat(kb) == \E a \in [Names -> BOOLEAN] : \A i \in DOMAIN kb : \E x \in kb[i] : a[x.name] = x.sign

\* the returned model makes literal x true
Holds(x, model) == \E p \in model : p.key = Literal(x.name, TRUE) /\ p.val = x.sign

\* the answer of the previous call on the same KB
Before == prev[1]

\* C1 (soundness): when dpll_satisfiable returns satisfiable = True, the
\* returned model makes at least one literal true in every clause of the
\* original input KB.
C1_Soundness == (phase = "done" /\ result.sat) => \A i \in DOMAIN kb0 : \E x \in kb0[i] : Holds(x, result.model)

\* C1 witness: a satisfiable answer found after backtracking, with a variable
\* assigned False and every clause of a full-size KB to satisfy
C1_Witness == /\ phase = "done" /\ result.sat
              /\ Len(kb0) = MaxClauses
              /\ Cardinality(result.model) = NumVars
              /\ \E p \in result.model : ~p.val

\* C2 (completeness on unsat): when dpll_satisfiable returns satisfiable =
\* False, at any heuristic level, no truth assignment of the variables
\* satisfies all clauses of the input KB.
C2_Completeness == (phase = "done" /\ ~result.sat) => ~BruteSat(kb0)

\* C2 witness: an unsatisfiable answer reached through a freebie step
C2_Witness == /\ phase = "done" /\ ~result.sat
              /\ stuff.h_lvl >= 2
              /\ result.trace # <<>>
              /\ \A i \in DOMAIN kb0 : kb0[i] # {}

\* C3 (heuristic invariance): two calls on the same KB at heuristic levels in
\* 0..3 return the same satisfiable boolean, whatever literals level 0 picks.
C3_SameVerdict == (phase = "done" /\ prev # <<>> /\ stuff.h_lvl \in 0..3 /\ Before.h \in 0..3) => result.sat = Before.sat

\* C3 witness: level 2 (freebie steps) answered after level 3 on a KB that
\* needs a decision, and level 0 answered after level 1
C3_Witness == /\ phase = "done" /\ prev # <<>>
              /\ stuff.h_lvl = 0 /\ Before.h = 1
              /\ result.trace # Before.trace
              /\ ~result.sat

\* C4, as claimed: a heuristic level above 3 gives exactly the result of level
\* 3 (verdict, model and trace), and a negative level takes no freebie step.
C4_OutOfRangeAsNearestTier ==
    /\ (phase = "done" /\ prev # <<>> /\ Before.h > 3 /\ stuff.h_lvl = 3) =>
           /\ result.sat = Before.sat
           /\ result.model = Before.model
           /\ result.trace = Before.trace
    /\ stuff.h_lvl < 0 => \A i \in DOMAIN stack : stack[i].pc # "free"

\* C5 (bounded depth): the variables chosen along one chain of nested calls
\* are pairwise distinct, none of them occurs in a KB passed deeper, and the
\* number of nested decisions is at most the number of variables of the input.
C5_DepthBounded ==
    /\ \A i, j \in Decided : i # j => stack[i].sub.name # stack[j].sub.name
    /\ \A i \in Decided : \A j \in DOMAIN stack : j > i => stack[i].sub.name \notin NamesIn(stack[j].kb)
    /\ Cardinality(Decided) <= Cardinality(NamesIn(kb0))

\* the call of dpll_satisfiable is over: it returned its tuple, or it ended
\* with RecursionError
Ended == phase \in {"done", "raised"}

\* the caller left the largest room: the levels every line of an activation
\* can take, and one more for each variable
AmpleRoom == room = NumVars + MaxUnits(stuff.h_lvl)

\* C5 (termination with bounded depth): every call of dpll_satisfiable comes
\* to an end, by returning or by raising, and by returning when the caller
\* left ample room; its chain of nested decisions keeps the bound above.
C5_Termination ==
    /\ []C5_DepthBounded
    /\ [](AmpleRoom => phase # "raised")
    /\ ((phase = "running") ~> Ended)

\* C5 witness: a chain of nested decisions as long as the variables allow
C5_Witness == /\ Cardinality(Decided) = NumVars
              /\ Cardinality(NamesIn(kb0)) = NumVars
              /\ Top.pc = "start"

\* some step of the search can be taken: a result is awaited exactly when the
\* top activation is inside a call, and is there when no activation is left
Proceeds == IF stack = <<>> THEN ret # "None"
            ELSE IF Top.pc = "start" THEN ret = "None" ELSE ret # "None"

\* the call has ended with an exception raised in a nested activation: the
\* first activation of _dpll had the levels its lines take and made its
\* recursive call, and the search ran out of levels deeper down
RaisedInSearch == phase = "raised" /\ err[1].depth >= 2

FreeLiterals(kb) == {x \in get_lits(kb) : (\A i \in DOMAIN kb : Neg(x) \notin kb[i]) \/ (\E i \in DOMAIN kb : kb[i] = {x})}

\* x comes before y in the candidate list of level h
ComesFirst(x, y, kb, h) ==
    IF h = 3
    THEN \/ degree(x, kb) > degree(y, kb)
         \/ degree(x, kb) = degree(y, kb) /\ LitLess(x, y)
    ELSE LitLess(x, y)

\* kb with literal x made true
MadeTrue(x, kb) == [i \in DOMAIN kb |-> {IF y = x THEN BoolConst(TRUE) ELSE IF y = Neg(x) THEN BoolConst(FALSE) ELSE y : y \in kb[i]}]

\* the top activation is a non-terminal call at level >= 2 whose simplified
\* KB has a pure or unit literal
FreebieDue == AtStart /\ stuff.h_lvl >= 2 /\ Open(TopKb) /\ FreeLiterals(TopKb) # {}

\* C7, the step: every such activation that the interpreter lets run appends
\* the first candidate to the trace, assigns its variable the polarity that
\* makes it true and makes one recursive call.
C7_FreebieStep ==
    (FreebieDue /\ phase' # "raised") =>
        \E x \in FreeLiterals(TopKb) :
            /\ \A y \in FreeLiterals(TopKb) \ {x} : ComesFirst(x, y, TopKb, stuff.h_lvl)
            /\ stuff'.trace = Append(stuff.trace, x)
            /\ Len(stack') = Len(stack) + 1
            /\ stack'[Len(stack)].pc = "free"
            /\ stack'[Len(stack')].pc = "start"
            /\ stack'[Len(stack')].kb = MadeTrue(x, TopKb)
            /\ stack'[Len(stack')].model = Top.model \cup {[name |-> x.name, val |-> x.sign]}

\* C7, the other case: an activation the interpreter ends with RecursionError
\* (the case of C6) has appended nothing and made no call.
C7_NothingElse == (FreebieDue /\ phase' = "raised") => (stuff' = stuff /\ stack' = <<>>)

\* C7, no branching: when the single call of a freebie step returns, the
\* activation returns the same value without a second call.
C7_SingleCall == Returned("free") => (stack' = Pop /\ ret' = ret /\ stuff' = stuff)

\* the KB [{A,B},{A,-B}]
PureExampleKb == Len(kb0) = 2 /\ {kb0[1], kb0[2]} = {{Literal(1, TRUE), Literal(2, TRUE)}, {Literal(1, TRUE), Literal(2, FALSE)}}

\* C7 (free simplification): the step and the single call above, and no
\* other step of such an activation; and on [{A,B},{A,-B}] at level >= 2 the
\* first trace entry is A, assigned True.
C7_FreeSimplification ==
    /\ [][C7_FreebieStep]_vars
    /\ [][C7_NothingElse]_vars
    /\ [][C7_SingleCall]_vars
    /\ [](PureExampleKb /\ stuff.h_lvl >= 2 /\ stuff.trace # <<>> =>
            /\ stuff.trace[1] = Literal(1, TRUE)
            /\ stack # <<>> => (stack[1].pc = "free" /\ stack[1].sub = Literal(1, TRUE)))

\* C7 witness: a freebie step at level 3 that took a literal of higher degree
\* than the alphabetically first candidate, and whose call has returned
C7_Witness == /\ stuff.h_lvl = 3
              /\ Returned("free")
              /\ \E y \in FreeLiterals(Top.kb) : LitLess(y, Top.sub) /\ degree(y, Top.kb) < degree(Top.sub, Top.kb)

\* C8, as claimed: at level >= 1 the literal the branch step takes comes from
\* a literal set of positives, one per variable, has the maximum degree, and
\* among those of maximum degree the alphabetically smallest name.
C8_BranchChoice ==
    \A i \in DOMAIN stack : (stack[i].pc \in {"true", "false"} /\ stuff.h_lvl >= 1) =>
        LET kb == stack[i].kb
            sub == stack[i].sub
        IN  /\ \A x \in get_lits(kb) : x.sign = TRUE
            /\ sub \in get_lits(kb)
            /\ \A x \in get_lits(kb) : degree(x, kb) <= degree(sub, kb)
            /\ \A x \in get_lits(kb) : degree(x, kb) = degree(sub, kb) => sub.name <= x.name

\* the activation under the top one has just started waiting in state pc
Started(pc) == /\ Len(stack') = Len(stack) + 1
               /\ stack'[Len(stack)].pc = pc
               /\ stack'[Len(stack')].pc = "start"

\* C9, first call: the branch step appends the chosen literal to the trace
\* and starts the sub-search that assigns True.
C9_TrueFirst ==
    (AtStart /\ Len(stack') > Len(stack) /\ stack'[Len(stack)].pc # "free") =>
        LET sub == stack'[Len(stack)].sub
        IN  /\ Started("true")
            /\ stuff'.trace = Append(stuff.trace, sub)
            /\ stack'[Len(stack')].model = Top.model \cup {[name |-> sub.name, val |-> TRUE]}
            /\ stack'[Len(stack')].kb = MadeTrue(Literal(sub.name, TRUE), TopKb)

\* C9, second call: when the True sub-search has returned, the False one
\* starts iff it returned False; otherwise the branch returns True at once.
C9_FalseIffTrueFailed ==
    Returned("true") =>
        IF ret = "False"
        THEN /\ Started("false")
             /\ stack'[Len(stack)].sub = Top.sub
             /\ stack'[Len(stack')].model = Top.model \cup {[name |-> Top.sub.name, val |-> FALSE]}
             /\ stack'[Len(stack')].kb = MadeTrue(Literal(Top.sub.name, FALSE), Top.kb)
             /\ stuff' = stuff
        ELSE stack' = Pop /\ ret' = "True" /\ stuff' = stuff

\* C9, no other way into the False sub-search
C9_FalseOnlyThen ==
    (\E i \in DOMAIN stack' : stack'[i].pc = "false" /\ (i \notin DOMAIN stack \/ stack[i].pc # "false")) =>
        (Returned("true") /\ ret = "False")

\* C9, the value: the branch returns what the False sub-search returned
C9_ReturnsSecond == Returned("false") => (stack' = Pop /\ ret' = ret /\ stuff' = stuff)

\* C9 (exploration order): the chosen literal is in the trace before either
\* recursive call starts, True is tried first, False is tried iff True
\* failed, and the branch returns True iff an explored sub-search did.
C9_ExplorationOrder ==
    /\ [][C9_TrueFirst]_vars
    /\ [][C9_FalseIffTrueFailed]_vars
    /\ [][C9_FalseOnlyThen]_vars
    /\ [][C9_ReturnsSecond]_vars
    /\ [](\A i \in DOMAIN stack : stack[i].pc \in {"true", "false"} =>
            \E k \in DOMAIN stuff.trace : stuff.trace[k] = stack[i].sub)

\* C9 witness: a False sub-search, started after the True one failed, has
\* returned True
C9_Witness == Returned("false") /\ ret = "True"

\* C10, the write: the shared model changes only at a success terminal, from
\* empty to the partial model of the chain of calls on the stack.
C10_WrittenAtSuccess ==
    /\ (phase = "running" /\ stuff'.model # stuff.model) => (AtStart /\ AllResolved(TopKb) /\ stuff.model = {})
    /\ (AtStart /\ AllResolved(TopKb)) => stuff'.model = PathModel

\* C10 (shared model): empty until success; written once, with the model of
\* the successful path; an unsatisfiable answer carries the empty model, a
\* satisfiable one the written model, whose variables all occur in the trace.
C10_SharedModel ==
    /\ []((phase = "running" /\ ret # "True") => stuff.model = {})
    /\ []((phase = "done" /\ ~result.sat) => result.model = {})
    /\ [][C10_WrittenAtSuccess]_vars
    /\ []((phase = "done" /\ result.sat) =>
            /\ result.model = {[key |-> Literal(p.name, TRUE), val |-> p.val] : p \in stuff.model}
            /\ \A p \in stuff.model : \E k \in DOMAIN result.trace : result.trace[k].name = p.name)

\* C10 witness: a satisfiable answer whose trace holds a decision of a failed
\* branch that is not in the model
C10_Witness == /\ phase = "done" /\ result.sat
               /\ \E k \in DOMAIN result.trace : \A p \in result.model : p.key.name # result.trace[k].name
====
